---- MODULE Spec2Model ----
(***************************************************************************)
(* Model of usb3_core/daisho_mod/usb_descrip_gen.c: the USB 2.0 / USB 3.0  *)
(* descriptor ROM generator.  The emitter functions are actions over the   *)
(* program's globals; the five output files are sequences.  Memory is      *)
(* byte-addressed, the host is little-endian (the u32 loads of write_buf32 *)
(* and the 2-byte memcpy of add_config_end read the low bytes first).      *)
(***************************************************************************)
EXTENDS Integers, Sequences, FiniteSets, TLC

VARIABLES
    i_2, i_3,                   \* u32 i_2, i_3            (line 36)
    c_2, c_3,                   \* u32 c_2, c_3            (line 37)
    a, z,                       \* u8 *a, *z: offsets into buf_2 / buf_3, or NULL
    buf_2, buf_3,               \* u8 buf_2[1024], buf_3[1024]
    bytes_pending_2, bytes_pending_3,
    bitwidth_2, bitwidth_3,
    bytes_written_2, bytes_written_3,
    bin_2, init_2,              \* usb2_descrip.bin (bytes), usb2_descrip_rom.init (lines)
    bin_3, init_3,              \* usb3_descrip.bin (bytes), usb3_descrip_rom.init (lines)
    descrip_vh,                 \* usb_descrip.vh: the parameter lines, in file order
    wchar_size,                 \* sizeof(wchar_t) of the build: 2 or 4
    lit_tail,                   \* the two bytes that follow each 2-byte string literal
    pc,                         \* where main is: "run", "pad2", "pad3", "done", "crashed"
    calls,                      \* history: the calls main has made so far
    vh_pos                      \* history: per line of descrip_vh, the address units
                                \* already persisted to that target when it was printed

vars == <<i_2, i_3, c_2, c_3, a, z, buf_2, buf_3, bytes_pending_2, bytes_pending_3,
          bitwidth_2, bitwidth_3, bytes_written_2, bytes_written_3,
          bin_2, init_2, bin_3, init_3, descrip_vh, wchar_size, lit_tail,
          pc, calls, vh_pos>>

emitter == <<i_2, i_3, c_2, c_3, a, z, buf_2, buf_3, bytes_pending_2, bytes_pending_3,
             bytes_written_2, bytes_written_3, bin_2, init_2, bin_3, init_3,
             descrip_vh, vh_pos>>

build == <<bitwidth_2, bitwidth_3, wchar_size, lit_tail>>

----------------------------------------------------------------------------
(* Bounds of the exploration.                                              *)

MaxCalls == 3
MaxGroupCalls == 5
MaxPadCalls == 1
MaxBitwidth == 3
MaxStrLen == 127

----------------------------------------------------------------------------
(* Machine arithmetic and memory.  The u32 counters stay far below 2^32 in  *)
(* every run explored, so they are plain integers.                         *)

BufSize == 1024
NULL == -1

Pow2(n) == 2 ^ n

ToU8(n) == n % 256

\* a block of memory: a function from 0..n-1 to bytes
Mem(s) == [k \in 0 .. Len(s) - 1 |-> s[k + 1]]

ZeroBuf == [k \in 0 .. BufSize - 1 |-> 0]

RECURSIVE PokeFrom(_, _, _, _)
PokeFrom(buf, off, s, k) ==
    IF k > Len(s) THEN buf
    ELSE PokeFrom([buf EXCEPT ![off + k - 1] = s[k]], off, s, k + 1)

\* *p++ = s[1]; *p++ = s[2]; ... with p at offset off of buf
Poke(buf, off, s) == PokeFrom(buf, off, s, 1)

\* the n bytes at offset off
Peek(buf, off, n) == [k \in 1 .. n |-> buf[off + k - 1]]

\* the low two bytes of a u32, low byte first (memcpy(dst, &u32, 2))
Low16(n) == <<n % 256, (n \div 256) % 256>>

\* A u32 register value is its four bytes <<b0, b1, b2, b3>>, b0 the least
\* significant: value = b0 + 2^8 b1 + 2^16 b2 + 2^24 b3.
\* *(u32 *)p on the host: the byte at the lowest address is the least significant
LoadU32(b) == <<b[1], b[2], b[3], b[4]>>

RECURSIVE BitOr(_, _)
BitOr(x, y) ==
    IF x = 0 THEN y
    ELSE IF y = 0 THEN x
    ELSE (IF x % 2 = 1 \/ y % 2 = 1 THEN 1 ELSE 0) + 2 * BitOr(x \div 2, y \div 2)

\* w & (0xff << 8k)
AndByte(w, k) == [j \in 1 .. 4 |-> IF j = k + 1 THEN w[j] ELSE 0]
\* w << 8n and w >> 8n in 32 bits
ShlBytes(w, n) == [j \in 1 .. 4 |-> IF j - n >= 1 THEN w[j - n] ELSE 0]
ShrBytes(w, n) == [j \in 1 .. 4 |-> IF j + n <= 4 THEN w[j + n] ELSE 0]
Or32(v, w) == [j \in 1 .. 4 |-> BitOr(v[j], w[j])]

HexDigits == <<"0", "1", "2", "3", "4", "5", "6", "7",
               "8", "9", "A", "B", "C", "D", "E", "F">>

\* "%02X" of a byte
FormatHex2(v) == <<HexDigits[(v \div 16) + 1], HexDigits[(v % 16) + 1]>>

\* "%08X" of a u32: the most significant byte is printed first
FormatHex8(w) == FormatHex2(w[4]) \o FormatHex2(w[3]) \o FormatHex2(w[2]) \o FormatHex2(w[1])

Bswap32_OuterOnly(w) ==
    Or32(Or32(ShlBytes(AndByte(w, 0), 3), AndByte(w, 1)),
         Or32(AndByte(w, 2), ShrBytes(AndByte(w, 3), 3)))

\* w = (w & 0xff) << 24 | (w & 0xff00) << 8 | (w & 0xff0000) >> 8 | (w & 0xff000000) >> 24
Bswap32(w) ==
    Or32(Or32(ShlBytes(AndByte(w, 0), 3), ShlBytes(AndByte(w, 1), 1)),
         Or32(ShrBytes(AndByte(w, 2), 1), ShrBytes(AndByte(w, 3), 3)))

----------------------------------------------------------------------------
(* The two output streams and the parameter file.                          *)

S2 == [bin |-> bin_2, init |-> init_2, n |-> bytes_written_2]
S3 == [bin |-> bin_3, init |-> init_3, n |-> bytes_written_3]
VH == [lines |-> descrip_vh, pos |-> vh_pos]

\* write_buf8(buf, size): one text line and one binary byte per byte
write_buf8(s, src, size) ==
    [bin  |-> s.bin \o Peek(src, 0, size),
     init |-> s.init \o [k \in 1 .. size |-> FormatHex2(src[k - 1])],
     n    |-> s.n + size]

\* the number of iterations of for(i = 0; i < size; i += 4)
WordCount(size) == (size + 3) \div 4

\* write_buf32(buf, size): per word, the swapped value as text and the four
\* bytes as they lie in memory as binary
write_buf32(s, src, size) ==
    [bin  |-> s.bin \o Peek(src, 0, 4 * WordCount(size)),
     init |-> s.init \o [k \in 1 .. WordCount(size) |->
                            FormatHex8(Bswap32(LoadU32(Peek(src, 4 * (k - 1), 4))))],
     n    |-> s.n + 4 * WordCount(size)]

VhLine(target, width, name, value) ==
    [target |-> target, msb |-> width - 1, name |-> name, value |-> value]

\* print_offsets(name, for_usb2, for_usb3), with i_2 / i_3 as they are at the
\* call and the streams as they are at the call (for the history vh_pos)
print_offsets(t, name, for_usb2, for_usb3, i2, i3, s2, s3) ==
    LET l2 == IF for_usb2 # 0 THEN <<VhLine(2, bitwidth_2, name, i2)>> ELSE <<>>
        l3 == IF for_usb3 # 0 THEN <<VhLine(3, bitwidth_3, name, i3)>> ELSE <<>>
        p2 == IF for_usb2 # 0 THEN <<s2.n>> ELSE <<>>
        p3 == IF for_usb3 # 0 THEN <<s3.n \div 4>> ELSE <<>>
    IN  [lines |-> t.lines \o l2 \o l3, pos |-> t.pos \o p2 \o p3]

----------------------------------------------------------------------------
(* Calls.  A call is [op, n, str]: the function, its numeric arguments in  *)
(* declaration order, and its string argument as character codes.          *)

Call(op, n, str) == [op |-> op, n |-> n, str |-> str]

\* the call is made although it ends in a store through a null pointer
Crash(c) ==
    /\ pc' = "crashed"
    /\ calls' = Append(calls, c)
    /\ UNCHANGED <<emitter, build>>

Returns(c) ==
    /\ pc' = pc
    /\ calls' = Append(calls, c)
    /\ UNCHANGED build

BcdUSB2_Always210(usb_spec) == \H210

\* (usb_spec == 0x300) ? 0x210 : 0x200
BcdUSB2(usb_spec) == IF usb_spec = \H300 THEN \H210 ELSE \H200

\* add_device_qual, called by add_device_descr: the image of buf_2
DeviceQualBytes(usb_spec, class_code, subclass, protocol_code, max_size_ep0, num_possible_config) ==
    <<\H0A, \H06, BcdUSB2(usb_spec) % 256, BcdUSB2(usb_spec) \div 256,
      class_code, subclass, protocol_code, max_size_ep0, num_possible_config, 0>>

AddDeviceDescr(c) ==
    /\ c.op = "add_device_descr"
    /\ LET usb_spec      == c.n[1]
           class_code    == c.n[2]
           subclass      == c.n[3]
           protocol_code == c.n[4]
           max_size_ep0  == c.n[5]
           vid           == c.n[6]
           pid           == c.n[7]
           dev_num       == c.n[8]
           idx_mfg       == c.n[9]
           idx_prod      == c.n[10]
           idx_serial    == c.n[11]
           num_cfg       == c.n[12]
           t1  == print_offsets(VH, "DEVICE", 1, 1, i_2, i_3, S2, S3)
           b1  == Poke(buf_2, 0, <<\H12, \H01, BcdUSB2(usb_spec) % 256,
                                   BcdUSB2(usb_spec) \div 256>>)
           s2a == write_buf8(S2, b1, 4)
           b2  == Poke(b1, 2, <<\H300 % 256, \H300 \div 256>>)
           s3a == write_buf32(S3, b2, 4)
           b3  == Poke(b2, 0, <<class_code, subclass, protocol_code, max_size_ep0>>)
           s2b == write_buf8(s2a, b3, 4)
           b4  == Poke(b3, 3, <<\H09>>)
           s3b == write_buf32(s3a, b4, 4)
           b5  == Poke(b4, 0, <<vid % 256, ToU8(vid \div 256), pid % 256, ToU8(pid \div 256),
                                dev_num % 256, ToU8(dev_num \div 256),
                                idx_mfg, idx_prod, idx_serial, num_cfg>>)
           s2c == write_buf8(s2b, b5, 10)
           s3c == write_buf32(s3b, b5, 10)
           \* add_device_qual
           t2  == print_offsets(t1, "DEVICE_QUAL", 1, 0, i_2, i_3, s2c, s3c)
           b6  == Poke(b5, 0, DeviceQualBytes(usb_spec, class_code, subclass,
                                              protocol_code, max_size_ep0, num_cfg))
           s2d == write_buf8(s2c, b6, 10)
       IN  /\ a' = 10
           /\ buf_2' = b6
           /\ bin_2' = s2d.bin /\ init_2' = s2d.init /\ bytes_written_2' = s2d.n
           /\ bin_3' = s3c.bin /\ init_3' = s3c.init /\ bytes_written_3' = s3c.n
           /\ descrip_vh' = t2.lines /\ vh_pos' = t2.pos
           /\ UNCHANGED <<i_2, i_3, c_2, c_3, z, buf_3, bytes_pending_2, bytes_pending_3>>
    /\ Returns(c)

\* the Config and Interface descriptors add_config_start writes at buf_2
ConfigHeadBytes(usb_spec, attrib, power_ma, num_endpoints) ==
    <<\H09, \H02, \HFFFF % 256, \HFFFF \div 256, \H01, \H01, \H00, attrib,
      ToU8(IF usb_spec = \H300 THEN power_ma \div 8 ELSE power_ma \div 2),
      \H09, \H04, \H00, \H00, num_endpoints, \HFF, \HFF, \HFF, \H02>>

AddConfigStart(c) ==
    /\ c.op = "add_config_start"
    /\ LET t1 == print_offsets(VH, "CONFIG", 1, 1, i_2, i_3, S2, S3)
           b2 == Poke(buf_2, 0, ConfigHeadBytes(c.n[1], c.n[2], c.n[3], c.n[4]))
           p2 == 0 + 9 + 9
           p3 == 0 + 9 + 9
       IN  /\ c_2' = i_2 /\ c_3' = i_3
           /\ descrip_vh' = t1.lines /\ vh_pos' = t1.pos
           /\ buf_2' = b2
           /\ bytes_pending_2' = p2 /\ bytes_pending_3' = p3
           \* memcpy(buf_3, buf_2, bytes_pending_2); z += bytes_pending_3
           /\ buf_3' = Poke(buf_3, 0, Peek(b2, 0, p2))
           /\ a' = 18
           /\ z' = 0 + p3
           /\ UNCHANGED <<i_2, i_3, bytes_written_2, bytes_written_3,
                          bin_2, init_2, bin_3, init_3>>
    /\ Returns(c)

\* idx | (dir ? 0x80 : 0x0)
EndpointAddress(idx, dir) ==
    IF dir # 0 /\ (idx \div 128) % 2 = 0 THEN idx + 128 ELSE idx

\* the Endpoint descriptor add_endpoint writes at a
EndpointBytes(idx, dir, attrib, max_pkt, interval) ==
    <<\H07, \H05, EndpointAddress(idx, dir), attrib,
      max_pkt % 256, ToU8(max_pkt \div 256), interval>>

PatchMaxPacket_Skipped(ep) == ep

\* *(z-2) = 0x04; *(z-3) = 0x00; on the copy of the endpoint in buf_3
PatchMaxPacket(ep) == [ep EXCEPT ![5] = \H00, ![6] = \H04]

\* the SuperSpeed companion descriptor, written to buf_3 only
CompanionBytes(max_burst, attrib_3, bytes_per_interval) ==
    <<\H06, \H30, ToU8(max_burst - 1), attrib_3,
      bytes_per_interval % 256, ToU8(bytes_per_interval \div 256)>>

AddEndpoint(c) ==
    /\ c.op = "add_endpoint"
    /\ IF a = NULL \/ z = NULL
       THEN Crash(c)
       ELSE /\ LET ep == EndpointBytes(c.n[1], c.n[2], c.n[3], c.n[4], c.n[5])
                   b2 == Poke(buf_2, a, ep)
                   \* memcpy(z, c, 0x7), where c is the old a
                   b3 == Poke(buf_3, z, PatchMaxPacket(Peek(b2, a, 7)))
               IN  /\ buf_2' = b2
                   /\ a' = a + 7
                   /\ buf_3' = Poke(b3, z + 7, CompanionBytes(c.n[6], c.n[7], c.n[8]))
                   /\ z' = z + 7 + 6
                   /\ bytes_pending_2' = bytes_pending_2 + 7
                   /\ bytes_pending_3' = bytes_pending_3 + 7 + 6
                   /\ UNCHANGED <<i_2, i_3, c_2, c_3, bytes_written_2, bytes_written_3,
                                  bin_2, init_2, bin_3, init_3, descrip_vh, vh_pos>>
            /\ Returns(c)

\* the alternate Interface descriptor add_config_end writes at a
AltInterfaceBytes == <<\H09, \H04, \H00, \H01, \H00, \HFF, \HFF, \HFF, \H02>>

PatchTotalLength_BeforeAlt(buf, pending) == Poke(buf, 2, Low16(pending - 9))

\* memcpy(&buf[2], &bytes_pending, 2)
PatchTotalLength(buf, pending) == Poke(buf, 2, Low16(pending))

AddConfigEnd(c) ==
    /\ c.op = "add_config_end"
    /\ IF a = NULL \/ z = NULL
       THEN Crash(c)
       ELSE /\ LET p2 == bytes_pending_2 + 9
                   p3 == bytes_pending_3 + 9
                   b2 == Poke(buf_2, a, AltInterfaceBytes)
                   b3 == Poke(buf_3, z, Peek(b2, a, 9))
                   f2 == PatchTotalLength(b2, p2)
                   f3 == PatchTotalLength(b3, p3)
                   s2 == write_buf8(S2, f2, p2)
                   s3 == write_buf32(S3, f3, p3)
               IN  /\ a' = a + 9
                   /\ z' = z + 9
                   /\ bytes_pending_2' = p2 /\ bytes_pending_3' = p3
                   /\ buf_2' = f2 /\ buf_3' = f3
                   /\ bin_2' = s2.bin /\ init_2' = s2.init /\ bytes_written_2' = s2.n
                   /\ bin_3' = s3.bin /\ init_3' = s3.init /\ bytes_written_3' = s3.n
                   /\ UNCHANGED <<i_2, i_3, c_2, c_3, descrip_vh, vh_pos>>
            /\ Returns(c)

\* the BOS descriptor with its two device capabilities
BosBytes ==
    <<\H05, \H0F, \H16, \H00, \H02,
      \H07, \H10, \H02, \H02, \H00, \H00, \H00,
      \H0A, \H10, \H03, \H00, \H0E, \H00, \H02, \H08, \H64, \H00>>

AddBos(c) ==
    /\ c.op = "add_bos"
    /\ LET t1 == print_offsets(VH, "BOS    ", 0, 1, i_2, i_3, S2, S3)
           b3 == Poke(buf_3, 0, BosBytes)
           s3 == write_buf32(S3, b3, Len(BosBytes))
       IN  /\ z' = Len(BosBytes)
           /\ buf_3' = b3
           /\ descrip_vh' = t1.lines /\ vh_pos' = t1.pos
           /\ bin_3' = s3.bin /\ init_3' = s3.init /\ bytes_written_3' = s3.n
           /\ UNCHANGED <<i_2, i_3, c_2, c_3, a, buf_2, bytes_pending_2, bytes_pending_3,
                          bytes_written_2, bin_2, init_2>>
    /\ Returns(c)

\* len of add_string: 4 for string 0, else strlen(str)*2+2
StringLen(idx, str) == IF idx = 0 THEN 4 ELSE Len(str) * 2 + 2

\* byte j of w_str after mbstowcs(w_str, str, 128): wchar_t is ws bytes wide, low
\* byte first; str holds single-byte characters of the C locale
WideByte(str, ws, j) == IF j % ws = 0 THEN str[(j \div ws) + 1] ELSE 0

\* byte j of w_str after memcpy(&w_str[0], str, 2); str is followed by its NUL
RawByte(str, j) == IF j < Len(str) THEN str[j + 1] ELSE 0

\* sprintf(temp, "STRING%d", idx)
StringName(idx) == "STRING" \o ToString(idx)

\* buf_2 after memset(buf_2, 0, sizeof(buf_2)); *a++ = len; *a++ = 0x03;
\* memcpy(a, w_str, len-2)
StringImage(idx, str, ws) ==
    LET len == StringLen(idx, str)
    IN  [k \in 0 .. BufSize - 1 |->
            IF k = 0 THEN ToU8(len)
            ELSE IF k = 1 THEN \H03
            ELSE IF k < len
                 THEN (IF idx > 0 THEN WideByte(str, ws, k - 2) ELSE RawByte(str, k - 2))
                 ELSE 0]

AddString(c) ==
    /\ c.op = "add_string"
    /\ LET idx == c.n[1]
           len == StringLen(idx, c.str)
           t1  == print_offsets(VH, StringName(idx), 1, 1, i_2, i_3, S2, S3)
           b2  == StringImage(idx, c.str, wchar_size)
           s2  == write_buf8(S2, b2, len)
           s3  == write_buf32(S3, b2, len)
       IN  /\ a' = 2
           /\ buf_2' = b2
           /\ descrip_vh' = t1.lines /\ vh_pos' = t1.pos
           /\ bin_2' = s2.bin /\ init_2' = s2.init /\ bytes_written_2' = s2.n
           /\ bin_3' = s3.bin /\ init_3' = s3.init /\ bytes_written_3' = s3.n
           /\ UNCHANGED <<i_2, i_3, c_2, c_3, z, buf_3, bytes_pending_2, bytes_pending_3>>
    /\ Returns(c)

\* the string literals "\x00" and "\x01" hold two bytes each; write_buf32 loads
\* four, so the upper two are whatever the build placed after the literal
Literal(k) == Mem(<<k, 0>> \o lit_tail[k + 1])

AddSet(c) ==
    /\ c.op = "add_set"
    /\ LET t1  == print_offsets(VH, "CONFUNSET", 1, 1, i_2, i_3, S2, S3)
           s2a == write_buf8(S2, Literal(0), 1)
           s3a == write_buf32(S3, Literal(0), 1)
           t2  == print_offsets(t1, "CONFSET", 1, 1, i_2, i_3, s2a, s3a)
           s2b == write_buf8(s2a, Literal(1), 1)
           s3b == write_buf32(s3a, Literal(1), 1)
       IN  /\ descrip_vh' = t2.lines /\ vh_pos' = t2.pos
           /\ bin_2' = s2b.bin /\ init_2' = s2b.init /\ bytes_written_2' = s2b.n
           /\ bin_3' = s3b.bin /\ init_3' = s3b.init /\ bytes_written_3' = s3b.n
           /\ UNCHANGED <<i_2, i_3, c_2, c_3, a, z, buf_2, buf_3,
                          bytes_pending_2, bytes_pending_3>>
    /\ Returns(c)

----------------------------------------------------------------------------
(* The code of main between and after the calls.                           *)

\* "hack to print out CONFIG length": i_2 / i_3 are saved, set to the pending
\* counts for the print, and restored
PrintConfigLen(c) ==
    /\ c.op = "CONFIG_LEN"
    /\ LET t1 == print_offsets(VH, "CONFIG_LEN", 1, 1,
                               bytes_pending_2, bytes_pending_3, S2, S3)
       IN  /\ descrip_vh' = t1.lines /\ vh_pos' = t1.pos
    /\ UNCHANGED <<i_2, i_3, c_2, c_3, a, z, buf_2, buf_3, bytes_pending_2,
                   bytes_pending_3, bytes_written_2, bytes_written_3,
                   bin_2, init_2, bin_3, init_3>>
    /\ Returns(c)

\* "hack to print out BOS length": i_3 = z - buf_3 for the print, then restored;
\* main runs it right after add_bos, which sets z
PrintBosLen(c) ==
    /\ c.op = "BOS_LEN"
    /\ z # NULL
    /\ LET t1 == print_offsets(VH, "BOS_LEN", 0, 1, i_2, z, S2, S3)
       IN  /\ descrip_vh' = t1.lines /\ vh_pos' = t1.pos
    /\ UNCHANGED <<i_2, i_3, c_2, c_3, a, z, buf_2, buf_3, bytes_pending_2,
                   bytes_pending_3, bytes_written_2, bytes_written_3,
                   bin_2, init_2, bin_3, init_3>>
    /\ Returns(c)

\* print_offsets("EOF     ", 1, 1); the padding loops follow
PrintEOF(c) ==
    /\ c.op = "EOF"
    /\ LET t1 == print_offsets(VH, "EOF     ", 1, 1, i_2, i_3, S2, S3)
       IN  /\ descrip_vh' = t1.lines /\ vh_pos' = t1.pos
    /\ pc' = "pad2"
    /\ calls' = Append(calls, c)
    /\ UNCHANGED <<i_2, i_3, c_2, c_3, a, z, buf_2, buf_3, bytes_pending_2,
                   bytes_pending_3, bytes_written_2, bytes_written_3,
                   bin_2, init_2, bin_3, init_3, build>>

PadTarget2_OneShort(bw) == Pow2(bw) - 1

\* pow(2, bitwidth_2)
PadTarget2(bw) == Pow2(bw)

PadTarget3_Words(bw) == Pow2(bw)

\* pow(2, bitwidth_3)*4
PadTarget3(bw) == Pow2(bw) * 4

\* one test of while(bytes_written_2 < pow(2, bitwidth_2)) write_buf8("\0", 1);
Pad2 ==
    /\ pc = "pad2"
    /\ IF bytes_written_2 < PadTarget2(bitwidth_2)
       THEN LET s2 == write_buf8(S2, Mem(<<0, 0>>), 1)
            IN  /\ bin_2' = s2.bin /\ init_2' = s2.init /\ bytes_written_2' = s2.n
                /\ pc' = pc
       ELSE /\ pc' = "pad3"
            /\ UNCHANGED <<bin_2, init_2, bytes_written_2>>
    /\ UNCHANGED <<i_2, i_3, c_2, c_3, a, z, buf_2, buf_3, bytes_pending_2,
                   bytes_pending_3, bytes_written_3, bin_3, init_3,
                   descrip_vh, vh_pos, calls, build>>

\* one test of while(bytes_written_3 < pow(2, bitwidth_3)*4)
\*                 write_buf32((u32 *)"\0\0\0\0", 1);
Pad3 ==
    /\ pc = "pad3"
    /\ IF bytes_written_3 < PadTarget3(bitwidth_3)
       THEN LET s3 == write_buf32(S3, Mem(<<0, 0, 0, 0, 0>>), 1)
            IN  /\ bin_3' = s3.bin /\ init_3' = s3.init /\ bytes_written_3' = s3.n
                /\ pc' = pc
       ELSE /\ pc' = "done"
            /\ UNCHANGED <<bin_3, init_3, bytes_written_3>>
    /\ UNCHANGED <<i_2, i_3, c_2, c_3, a, z, buf_2, buf_3, bytes_pending_2,
                   bytes_pending_3, bytes_written_2, bin_2, init_2,
                   descrip_vh, vh_pos, calls, build>>

----------------------------------------------------------------------------
(* Inputs.                                                                 *)

\* main's own calls
MainDevice == Call("add_device_descr",
                   <<\H300, \HFF, \HFF, \HFF, 64, \H1D50, \H605A, \H1, 1, 2, 3, 1>>, <<>>)
MainConfig == Call("add_config_start", <<\H300, \H80, 500, 2>>, <<>>)
MainEp1    == Call("add_endpoint", <<1, 1, 2, 512, \H1, 16, \H00, 0>>, <<>>)
MainEp2    == Call("add_endpoint", <<2, 0, 2, 512, \H1, 16, \H00, 0>>, <<>>)
ConfigEnd  == Call("add_config_end", <<>>, <<>>)
Bos        == Call("add_bos", <<>>, <<>>)
MainStr0   == Call("add_string", <<0>>, <<9, 4>>)
MainStr1   == Call("add_string", <<1>>, <<71, 114, 101, 97, 116, 32, 83, 99, 111, 116, 116, 32, 71, 97, 100, 103, 101, 116, 115>>)
MainStr2   == Call("add_string", <<2>>, <<68, 97, 105, 115, 104, 111, 32, 85, 83, 66, 32, 116, 101, 115, 116>>)
MainStr3   == Call("add_string", <<3>>, <<68, 65, 73, 83, 72, 79, 85, 83, 66, 48, 48, 48>>)
Set        == Call("add_set", <<>>, <<>>)

\* the sequence of main, lines 360-427
MainScript ==
    <<MainDevice, MainConfig, MainEp1, MainEp2, ConfigEnd,
      Call("CONFIG_LEN", <<>>, <<>>), Bos, Call("BOS_LEN", <<>>, <<>>),
      MainStr0, MainStr1, MainStr2, MainStr3, Set, Call("EOF", <<>>, <<>>)>>

\* other arguments: a USB 2.0-only device, a second configuration, strings of
\* the shortest and the longest length explored
OtherDevice == Call("add_device_descr",
                    <<\H200, \H02, \H01, \H03, 8, \H0483, \H5740, \H0102, 4, 5, 6, 2>>, <<>>)
OtherConfig == Call("add_config_start", <<\H200, \HC0, 100, 1>>, <<>>)
LetterString(n) == [k \in 1 .. n |-> 65 + (k % 26)]
StringInputs ==
    {MainStr0, Call("add_string", <<1>>, LetterString(0)),
     Call("add_string", <<2>>, LetterString(3)),
     Call("add_string", <<1>>, LetterString(MaxStrLen))}

CallInputs ==
    {MainDevice, OtherDevice, MainConfig, MainEp1, ConfigEnd, Bos, Set} \cup StringInputs

GroupInputs == {MainConfig, OtherConfig, MainEp1, MainEp2, ConfigEnd}

\* whole descriptors, as content before the padding
PadInputs == {MainDevice, Bos, Set} \cup StringInputs

\* The builds explored: sizeof(wchar_t), and what follows the literals "\x00"
\* and "\x01" in read-only data (nothing but zeros; or the next literal)
Builds == {[wchar |-> 2, tail |-> <<<<0, 0>>, <<0, 0>>>>],
           [wchar |-> 4, tail |-> <<<<1, 0>>, <<37, 100>>>>]}

----------------------------------------------------------------------------
(* Specifications.                                                         *)

InitEmitter ==
    /\ i_2 = 0 /\ i_3 = 0
    /\ c_2 = 0 /\ c_3 = 0
    /\ a = NULL /\ z = NULL
    /\ buf_2 = ZeroBuf /\ buf_3 = ZeroBuf
    /\ bytes_pending_2 = 0 /\ bytes_pending_3 = 0
    /\ bytes_written_2 = 0 /\ bytes_written_3 = 0
    /\ bin_2 = <<>> /\ init_2 = <<>>
    /\ bin_3 = <<>> /\ init_3 = <<>>
    /\ descrip_vh = <<>> /\ vh_pos = <<>>
    /\ pc = "run" /\ calls = <<>>
    /\ \E b \in Builds : wchar_size = b.wchar /\ lit_tail = b.tail

\* main's "set your BRAM address bit widths"
Init ==
    /\ InitEmitter
    /\ bitwidth_2 = 8
    /\ bitwidth_3 = 7

Emit(c) ==
    \/ AddDeviceDescr(c)
    \/ AddConfigStart(c)
    \/ AddEndpoint(c)
    \/ AddConfigEnd(c)
    \/ AddBos(c)
    \/ AddString(c)
    \/ AddSet(c)

\* the calls main may make next: any of `inputs` while fewer than `limit` are made
Ready(inputs, limit) == IF pc = "run" /\ Len(calls) < limit THEN inputs ELSE {}

\* the emitter under any sequence of calls
Next == \E c \in Ready(CallInputs, MaxCalls) : Emit(c)

Spec == Init /\ [][Next]_vars

\* the configuration group functions under any sequence of calls
GroupNext == \E c \in Ready(GroupInputs, MaxGroupCalls) :
                 AddConfigStart(c) \/ AddEndpoint(c) \/ AddConfigEnd(c)

GroupSpec == Init /\ [][GroupNext]_vars

\* main as written
MainStep ==
    \E c \in Ready({MainScript[k] : k \in {Len(calls) + 1} \cap DOMAIN MainScript},
                   Len(MainScript)) :
        Emit(c) \/ PrintConfigLen(c) \/ PrintBosLen(c) \/ PrintEOF(c)

MainNext == MainStep \/ Pad2 \/ Pad3

MainSpec == Init /\ [][MainNext]_vars

\* main with other bit widths and other content before the padding
PadInit ==
    /\ InitEmitter
    /\ bitwidth_2 \in 1 .. MaxBitwidth
    /\ bitwidth_3 \in 1 .. MaxBitwidth

PadStep ==
    \/ \E c \in Ready(PadInputs, MaxPadCalls) :
           AddDeviceDescr(c) \/ AddBos(c) \/ AddString(c) \/ AddSet(c)
    \/ pc = "run" /\ PrintEOF(Call("EOF", <<>>, <<>>))

PadNext == PadStep \/ Pad2 \/ Pad3

\* main runs to its end: a loop that can take another iteration takes it
PadSpec == PadInit /\ [][PadNext]_vars /\ WF_vars(Pad2) /\ WF_vars(Pad3)

----------------------------------------------------------------------------
(* Notions the properties are stated in.                                   *)

Last(s) == s[Len(s)]

IsPrefix(s, t) == Len(s) <= Len(t) /\ SubSeq(t, 1, Len(s)) = s

\* the step is a call of op that returned
Called(op) ==
    /\ Len(calls') = Len(calls) + 1
    /\ Last(calls').op = op
    /\ pc' # "crashed"

\* positions of the add_config_start calls no add_config_end has followed
OpenStarts(h) ==
    {k \in DOMAIN h : /\ h[k].op = "add_config_start"
                      /\ \A j \in k + 1 .. Len(h) : h[j].op # "add_config_end"}

GroupOpen(h) == OpenStarts(h) # {}

\* h ends with add_config_start, k add_endpoint calls, add_config_end
GroupStarts(h) ==
    {k \in DOMAIN h : /\ h[k].op = "add_config_start"
                      /\ Last(h).op = "add_config_end"
                      /\ \A j \in k + 1 .. Len(h) - 1 : h[j].op = "add_endpoint"}

IsGroup(h) == h # <<>> /\ GroupStarts(h) # {}

\* the number k of its add_endpoint calls
GroupEndpoints(h) == Len(h) - 1 - (CHOOSE k \in GroupStarts(h) : TRUE)

\* the 16-bit little-endian field at byte offset off of the bytes that follow
\* the first `base` bytes of a stream
Field16(stream, base, off) == stream[base + off + 1] + 256 * stream[base + off + 2]

RoundUp4(n) == 4 * ((n + 3) \div 4)

\* a descriptor set split into its records, each as long as its bLength says
RECURSIVE Records(_)
Records(bytes) ==
    IF bytes = <<>> THEN <<>>
    ELSE LET n == IF bytes[1] = 0 \/ bytes[1] > Len(bytes) THEN Len(bytes) ELSE bytes[1]
         IN  <<SubSeq(bytes, 1, n)>> \o Records(SubSeq(bytes, n + 1, Len(bytes)))

IsEndpoint(r) == Len(r) = 7 /\ r[2] = \H05
IsCompanion(r) == Len(r) = 6 /\ r[2] = \H30

\* the USB3 form of a USB2 record: the wTotalLength of the Config descriptor is
\* left out of the comparison, an Endpoint carries wMaxPacketSize 1024
Masked(r) ==
    IF Len(r) = 9 /\ r[2] = \H02 THEN [r EXCEPT ![3] = 0, ![4] = 0]
    ELSE IF IsEndpoint(r) THEN [r EXCEPT ![5] = 1024 % 256, ![6] = 1024 \div 256]
    ELSE r

WithoutTotalLength(r) ==
    IF Len(r) = 9 /\ r[2] = \H02 THEN [r EXCEPT ![3] = 0, ![4] = 0] ELSE r

\* the group the last call wrote: its bytes in the USB2 stream, and in the USB3
\* stream without the fill of the last word
Group2 == SubSeq(bin_2, Len(bin_2) - bytes_pending_2 + 1, Len(bin_2))
Group3 == SubSeq(bin_3, Len(bin_3) - RoundUp4(bytes_pending_3) + 1,
                 Len(bin_3) - RoundUp4(bytes_pending_3) + bytes_pending_3)

----------------------------------------------------------------------------
(* Properties.                                                             *)

\* C1, as claimed: for every configuration group and for each target, the
\* total-length field at byte offset 2 of the group equals the number of bytes
\* add_config_end appended to that target's stream (the increase of
\* bytes_written_2, resp. bytes_written_3).
C1_TotalLengthIsBytesAppended ==
    [][(Called("add_config_end") /\ IsGroup(calls')) =>
          /\ Field16(bin_2', Len(bin_2), 2) = bytes_written_2' - bytes_written_2
          /\ Field16(bin_3', Len(bin_3), 2) = bytes_written_3' - bytes_written_3]_vars

\* C1, amended: for every configuration group with k endpoints, the USB2 field
\* is 27 + 7k and equals the bytes appended to the USB2 stream; the USB3 field
\* is 27 + 13k, the byte count of the group's descriptors, and the bytes
\* appended to the USB3 stream are that count rounded up to a whole word.
C1_TotalLengthIsDescriptorBytes ==
    [][(Called("add_config_end") /\ IsGroup(calls')) =>
          LET k == GroupEndpoints(calls')
          IN  /\ Field16(bin_2', Len(bin_2), 2) = 27 + 7 * k
              /\ bytes_written_2' - bytes_written_2 = 27 + 7 * k
              /\ Len(bin_2') - Len(bin_2) = 27 + 7 * k
              /\ Field16(bin_3', Len(bin_3), 2) = 27 + 13 * k
              /\ bytes_written_3' - bytes_written_3 = RoundUp4(27 + 13 * k)
              /\ Len(bin_3') - Len(bin_3) = RoundUp4(27 + 13 * k)]_vars

\* a group with two endpoints was written: 53 descriptor bytes, 56 appended
C1_Witness ==
    /\ pc = "run" /\ IsGroup(calls) /\ GroupEndpoints(calls) = 2
    /\ Field16(bin_3, Len(bin_3) - 56, 2) = 53

\* C9: after every add_endpoint bytes_pending_3 - bytes_pending_2 is 6 times the
\* number of endpoints added to the group so far; and a closed group's USB3
\* content is its USB2 content record by record, with each Endpoint's
\* wMaxPacketSize replaced by 1024 and a 6-byte companion (type 0x30) right
\* after each Endpoint, the total-length field apart; the USB2 content holds no
\* companion.
C9_CompanionsOnlyInUsb3 ==
    /\ (pc = "run" /\ GroupOpen(calls)) =>
          LET s == CHOOSE k \in OpenStarts(calls) : \A j \in OpenStarts(calls) : j <= k
          IN  bytes_pending_3 - bytes_pending_2
                = 6 * Cardinality({j \in s + 1 .. Len(calls) : calls[j].op = "add_endpoint"})
    /\ (pc = "run" /\ IsGroup(calls)) =>
          LET r2 == Records(Group2)
              r3 == Records(Group3)
              e3 == SelectSeq(r3, LAMBDA r : ~IsCompanion(r))
          IN  /\ \A k \in DOMAIN r2 : ~IsCompanion(r2[k])
              /\ Len(e3) = Len(r2)
              /\ \A k \in DOMAIN r2 : WithoutTotalLength(e3[k]) = Masked(r2[k])
              /\ \A k \in DOMAIN r3 :
                    /\ IsEndpoint(r3[k]) => k < Len(r3) /\ IsCompanion(r3[k + 1])
                    /\ IsCompanion(r3[k]) => k > 1 /\ IsEndpoint(r3[k - 1])
              /\ Len(r3) - Len(r2) = GroupEndpoints(calls)

\* a group with two endpoints was closed
C9_Witness ==
    /\ pc = "run" /\ IsGroup(calls) /\ GroupEndpoints(calls) = 2
    /\ Len(Records(Group3)) = 7

\* the 18 bytes of the Device descriptor the call just wrote to each stream
Device2 == SubSeq(bin_2', Len(bin_2) + 1, Len(bin_2) + 18)
Device3 == SubSeq(bin_3', Len(bin_3) + 1, Len(bin_3) + 18)

\* C5, as claimed: for every usb_spec and all field values, the two Device
\* descriptors agree on every byte except bcdUSB (bytes 2-3) and
\* bMaxPacketSize0 (byte 7); the USB2 copy always carries bcdUSB 0x0210 and the
\* caller's max_size_ep0, the USB3 copy bcdUSB 0x0300 and bMaxPacketSize0 9.
C5_Usb2AlwaysBcd210 ==
    [][Called("add_device_descr") =>
          /\ \A k \in (1 .. 18) \ {3, 4, 8} : Device2[k] = Device3[k]
          /\ Device2[3] + 256 * Device2[4] = \H210
          /\ Device2[8] = Last(calls').n[5]
          /\ Device3[3] + 256 * Device3[4] = \H300
          /\ Device3[8] = 9]_vars

\* C5, amended: as claimed, except that the USB2 copy carries bcdUSB 0x0210
\* when the requested usb_spec is 0x300 and 0x0200 for every other usb_spec.
C5_Usb2BcdFollowsSpec ==
    [][Called("add_device_descr") =>
          /\ \A k \in (1 .. 18) \ {3, 4, 8} : Device2[k] = Device3[k]
          /\ Device2[3] + 256 * Device2[4]
               = (IF Last(calls').n[1] = \H300 THEN \H210 ELSE \H200)
          /\ Device2[8] = Last(calls').n[5]
          /\ Device3[3] + 256 * Device3[4] = \H300
          /\ Device3[8] = 9]_vars

\* a Device descriptor was written for usb_spec 0x200, after other content
C5_Witness ==
    /\ pc = "run" /\ Len(calls) > 1 /\ Last(calls) = OtherDevice
    /\ SubSeq(bin_2, Len(bin_2) - 27, Len(bin_2) - 24) = <<\H12, \H01, \H00, \H02>>

\* C7: for every add_string(idx, str) the bLength byte written first and the
\* number of bytes appended to the USB2 stream both equal 2 + 2 * strlen(str)
\* when idx >= 1, and 4 when idx = 0.
C7_StringLength ==
    [][Called("add_string") =>
          LET c == Last(calls')
              n == IF c.n[1] = 0 THEN 4 ELSE 2 + 2 * Len(c.str)
          IN  /\ bin_2'[Len(bin_2) + 1] = n
              /\ Len(bin_2') - Len(bin_2) = n]_vars

\* C8: add_config_start while a group is open is rejected (it starts no new
\* group and leaves the pending one as it is), and add_config_end with no
\* group open is rejected (it writes nothing to the streams).
C8_OneGroupOpen ==
    [][/\ (Len(calls') = Len(calls) + 1 /\ Last(calls').op = "add_config_start"
              /\ GroupOpen(calls))
          => UNCHANGED <<bytes_pending_2, bytes_pending_3, c_2, c_3, a, z,
                         buf_2, buf_3, descrip_vh>>
       /\ (Len(calls') = Len(calls) + 1 /\ Last(calls').op = "add_config_end"
              /\ ~GroupOpen(calls))
          => UNCHANGED <<bin_2, init_2, bin_3, init_3,
                         bytes_written_2, bytes_written_3>>]_vars

\* the value a hexadecimal digit stands for
HexValue(ch) == CHOOSE d \in 0 .. 15 : HexDigits[d + 1] = ch

\* the bytes of the number a line of eight digits reads as, least significant first
TextWord(line) == [j \in 1 .. 4 |-> 16 * HexValue(line[9 - 2 * j]) + HexValue(line[10 - 2 * j])]

\* word k of the binary file as the number the host reads it as, least
\* significant byte first
BinWord(k) == LoadU32(SubSeq(bin_3, 4 * k - 3, 4 * k))

Reversed(w) == [j \in 1 .. 4 |-> w[5 - j]]

\* C4: both USB3 files hold the same number of words; the binary word is the
\* four bytes in memory order; the text value at the same word address is
\* its byte-order reversal, and reversing the text value gives the binary word.
C4_TextIsReversedBinary ==
    /\ Len(bin_3) = 4 * Len(init_3)
    /\ Len(bin_3) = bytes_written_3
    /\ \A k \in DOMAIN init_3 :
          /\ Len(init_3[k]) = 8
          /\ TextWord(init_3[k]) = Reversed(BinWord(k))
          /\ Reversed(TextWord(init_3[k])) = BinWord(k)
          /\ init_3[k] = FormatHex2(bin_3[4 * k - 3]) \o FormatHex2(bin_3[4 * k - 2])
                         \o FormatHex2(bin_3[4 * k - 1]) \o FormatHex2(bin_3[4 * k])

\* a word of four different bytes was written: the second word of the Device
\* descriptor, FF FF FF 09, is not one; the third of main's, 50 1D 5A 60, is
C4_Witness ==
    \E k \in DOMAIN init_3 :
        /\ Cardinality({bin_3[4 * k - j] : j \in 0 .. 3}) = 4
        /\ init_3[k] = <<"5", "0", "1", "D", "5", "A", "6", "0">>

\* the identifier a name argument of print_offsets ends up as in the file: the
\* blanks that pad "BOS    " and "EOF     " precede the tab and the "="
Identifier(name) ==
    CASE name = "BOS    "  -> "BOS"
      [] name = "EOF     " -> "EOF"
      [] OTHER             -> name

AddressNames ==
    {"DEVICE", "DEVICE_QUAL", "CONFIG", "BOS", "STRING0", "STRING1", "STRING2",
     "STRING3", "CONFUNSET", "CONFSET", "EOF"}

\* C2: every address entry (DEVICE, DEVICE_QUAL, CONFIG, BOS, STRING0..3,
\* CONFUNSET, CONFSET, EOF) records the write offset of its stream at the moment
\* the descriptor begins: the bytes already appended for USB2, the words
\* already appended for USB3.
C2_OffsetIsStreamPosition ==
    \A k \in DOMAIN descrip_vh :
        Identifier(descrip_vh[k].name) \in AddressNames
            => descrip_vh[k].value = vh_pos[k]

\* the identifiers of the file in order, one per run of lines with the same one
RECURSIVE Entries(_)
Entries(lines) ==
    IF lines = <<>> THEN <<>>
    ELSE LET rest == Entries(SubSeq(lines, 2, Len(lines)))
             id   == Identifier(lines[1].name)
         IN  IF rest # <<>> /\ rest[1] = id THEN rest ELSE <<id>> \o rest

MainEntries ==
    <<"DEVICE", "DEVICE_QUAL", "CONFIG", "CONFIG_LEN", "BOS", "BOS_LEN", "STRING0",
      "STRING1", "STRING2", "STRING3", "CONFUNSET", "CONFSET", "EOF">>

\* C6: main ends with 256 bytes in the USB2 files and 512 bytes, 128 words, in
\* the USB3 files; the parameter file holds DEVICE, DEVICE_QUAL, CONFIG,
\* CONFIG_LEN, BOS, BOS_LEN, STRING0..STRING3, CONFUNSET, CONFSET, EOF in that
\* order, no entry twice for one target, and a line once written stays.
C6_MainOutput ==
    /\ [](pc = "done" =>
            /\ Len(bin_2) = 256 /\ Len(init_2) = 256 /\ bytes_written_2 = 256
            /\ Len(bin_3) = 512 /\ Len(init_3) = 128 /\ bytes_written_3 = 512
            /\ Entries(descrip_vh) = MainEntries
            /\ \A j, k \in DOMAIN descrip_vh :
                  (descrip_vh[j].name = descrip_vh[k].name
                     /\ descrip_vh[j].target = descrip_vh[k].target) => j = k)
    /\ [](IsPrefix(Entries(descrip_vh), MainEntries))
    /\ [][IsPrefix(descrip_vh, descrip_vh')]_vars

\* main has returned, having padded both streams
C6_Witness ==
    /\ pc = "done" /\ Len(calls) = Len(MainScript)
    /\ Last(bin_2) = 0 /\ Last(descrip_vh).name = "EOF     "

\* the USB3 descriptors: DEVICE, CONFIG, BOS and the strings
Usb3Descriptors ==
    {k \in DOMAIN descrip_vh :
        /\ descrip_vh[k].target = 3
        /\ Identifier(descrip_vh[k].name)
             \in {"DEVICE", "CONFIG", "BOS", "STRING0", "STRING1", "STRING2", "STRING3"}}

\* the length a descriptor states for itself: wTotalLength for Config and BOS,
\* bLength otherwise
OwnLength(d) == IF d[2] \in {\H02, \H0F} THEN d[3] + 256 * d[4] ELSE d[1]

\* C10: in main's sequence every USB3 descriptor starts at a word boundary of
\* the stream and the bytes between the end of its own length and the next
\* word boundary are zero.
C10_FillIsZero ==
    \A k \in Usb3Descriptors :
        LET start == 4 * vh_pos[k]
            d     == SubSeq(bin_3, start + 1, Len(bin_3))
        IN  d # <<>> =>
              \A j \in OwnLength(d) + 1 .. RoundUp4(OwnLength(d)) : d[j] = 0

\* the content of each stream when the padding loops start: what was written
\* when print_offsets("EOF     ", 1, 1) ran
EofLines == {k \in DOMAIN descrip_vh : descrip_vh[k].name = "EOF     "}
ContentBytes2 == vh_pos[CHOOSE k \in EofLines : descrip_vh[k].target = 2]
ContentBytes3 == 4 * vh_pos[CHOOSE k \in EofLines : descrip_vh[k].target = 3]

MaxOf(x, y) == IF x >= y THEN x ELSE y

\* C3, as claimed: the padding loops never reduce the bytes persisted and end
\* with bytes_written_2 = 2^bitwidth_2 and bytes_written_3 = 2^bitwidth_3 * 4,
\* whatever was appended before.
C3_PaddedToAddressSpace ==
    /\ pc \in {"pad2", "pad3", "done"} =>
          bytes_written_2 >= ContentBytes2 /\ bytes_written_3 >= ContentBytes3
    /\ pc = "done" =>
          /\ bytes_written_2 = 2 ^ bitwidth_2
          /\ bytes_written_3 = (2 ^ bitwidth_3) * 4

\* C3, amended: the padding loops only append zero units and they terminate;
\* a stream whose content is at most its address space (2^bitwidth_2 bytes,
\* 2^bitwidth_3 * 4 bytes) ends exactly that long, and a stream whose content
\* is already longer is left as long as it is.
C3_PaddedUnlessLonger ==
    /\ [](pc \in {"pad2", "pad3", "done"} =>
            /\ bytes_written_2 >= ContentBytes2 /\ bytes_written_3 >= ContentBytes3
            /\ Len(bin_2) = bytes_written_2 /\ Len(bin_3) = bytes_written_3
            /\ \A k \in ContentBytes2 + 1 .. Len(bin_2) : bin_2[k] = 0
            /\ \A k \in ContentBytes3 + 1 .. Len(bin_3) : bin_3[k] = 0)
    /\ [](pc = "done" =>
            /\ bytes_written_2 = MaxOf(2 ^ bitwidth_2, ContentBytes2)
            /\ bytes_written_3 = MaxOf((2 ^ bitwidth_3) * 4, ContentBytes3))
    /\ (pc = "pad2" ~> pc = "done")

\* main has returned with the USB2 stream longer than its address space and the
\* USB3 stream padded: a Device descriptor, 28 and 20 bytes, under bitwidths 3
\* and 3, 8 and 32 bytes
C3_Witness ==
    /\ pc = "done" /\ bitwidth_2 = 3 /\ bitwidth_3 = 3
    /\ ContentBytes2 = 28 /\ bytes_written_2 = 28
    /\ ContentBytes3 = 20 /\ bytes_written_3 = 32

====
